---- MODULE Spec2Model ----
(***************************************************************************)
(* Model of the distribution wizard of collecting_society.py:              *)
(* Distribute.transition_distribute and Distribute._allocate, with the     *)
(* Utilisation, Allocation and Distribution records they read and write.   *)
(*                                                                         *)
(* Money is a Decimal.  A Decimal is modelled as an integer number of      *)
(* 10^-DecPlaces parts of one currency minor unit; a division rounds       *)
(* half-even at that resolution, as Decimal's context does at its own.     *)
(***************************************************************************)
EXTENDS Integers, Sequences, FiniteSets, TLC

\* ------------------------------------------------------------------ bounds
NumParty == 2
NumUtil == 3
NumDays == 2
MaxRuns == 2
DecPlaces == 4
NumArtists == 3
MaxContrib == 4
MaxPrior == 1

\* ---------------------------------------------------------------- universe
Party == 1..NumParty
Util == 1..NumUtil
Days == 1..NumDays
None == 0
TicksPerDay == 2

RECURSIVE Pow10(_)
Pow10(n) == IF n = 0 THEN 1 ELSE 10 * Pow10(n - 1)

\* one currency minor unit, as a Decimal
Unit == Pow10(DecPlaces)

\* Decimal(n) for a whole number of minor units
Dec(n) == n * Unit

\* ------------------------------------------------------------ Decimal ops
\* quotient a / n rounded half-even to a whole number (n > 0)
RoundHalfEven(a, n) ==
    LET q == a \div n
        r == a - q * n
    IN  IF 2 * r < n THEN q
        ELSE IF 2 * r > n THEN q + 1
        ELSE IF q % 2 = 0 THEN q ELSE q + 1

\* a division that truncates instead of rounding
DecDivFloor(a, n) == a \div n

\* Decimal / Decimal(n)
DecDiv(a, n) == RoundHalfEven(a, n)

\* currency.round(amount)
round(amount) == RoundHalfEven(amount, Unit) * Unit

\* ------------------------------------------------- creations, contributions
\* creation.contributions as a sequence of (artist, type) records
Contrib(a, t) == [artist |-> a, type |-> t]

Creations ==
    << [artist |-> 1, contributions |-> << >>],
       [artist |-> 1, contributions |->
            << Contrib(1, "composition"), Contrib(2, "composition"),
               Contrib(3, "performance"), Contrib(4, "performance") >>],
       [artist |-> 2, contributions |->
            << Contrib(1, "composition"), Contrib(2, "composition"),
               Contrib(3, "composition") >>],
       [artist |-> 3, contributions |->
            << Contrib(1, "composition"), Contrib(2, "text"),
               Contrib(1, "performance") >> ] >>

\* the artists of the contributions of one type, as the indexes holding them
OfType(creation, t) ==
    {i \in DOMAIN creation.contributions : creation.contributions[i].type = t}

\* an artist counted once however many records of the role it holds
TimesOnce(artist, creation, idx) ==
    IF \E i \in idx : creation.contributions[i].artist = artist THEN 1 ELSE 0

\* the number of records among idx that the artist holds: one += each
Times(artist, creation, idx) ==
    Cardinality({i \in idx : creation.contributions[i].artist = artist})

\* the role branch of _allocate with its constants as parameters
AllocateWith(creation, amount0, halve, composer_pct, texter_pct) ==
    LET composer == OfType(creation, "composition")
        texter == OfType(creation, "text")
        performers == OfType(creation, "performance")
        creators == IF composer # {} THEN composer ELSE texter
        amount == IF halve /\ performers # {} /\ creators # {}
                  THEN DecDiv(amount0, 2) ELSE amount0
        composer_amount ==
            IF composer # {} /\ texter # {}
            THEN DecDiv(DecDiv(amount * composer_pct, 100),
                        Cardinality(composer))
            ELSE IF texter # {} THEN 0
            ELSE IF composer # {} THEN DecDiv(amount, Cardinality(composer))
            ELSE 0
        texter_amount ==
            IF composer # {} /\ texter # {}
            THEN DecDiv(DecDiv(amount * texter_pct, 100), Cardinality(texter))
            ELSE IF texter # {} THEN DecDiv(amount, Cardinality(texter))
            ELSE 0
        performer_amount ==
            IF performers # {} THEN DecDiv(amount, Cardinality(performers))
            ELSE 0
        keys == {creation.contributions[i].artist :
                    i \in DOMAIN creation.contributions}
    IN  [a \in keys |->
            Times(a, creation, composer) * composer_amount
            + Times(a, creation, texter) * texter_amount
            + Times(a, creation, performers) * performer_amount]

\* an _allocate whose test of creation.contributions is inverted
_allocateInverted(creation, amount0) ==
    IF creation.contributions # << >>
    THEN [a \in {creation.artist} |-> amount0]
    ELSE AllocateWith(creation, amount0, TRUE, 65, 35)

\* an _allocate that gives 35% to the composers and 65% to the texters
_allocateSwapped(creation, amount0) ==
    IF creation.contributions = << >>
    THEN [a \in {creation.artist} |-> amount0]
    ELSE AllocateWith(creation, amount0, TRUE, 35, 65)

\* an _allocate that never halves the amount
_allocateUnhalved(creation, amount0) ==
    IF creation.contributions = << >>
    THEN [a \in {creation.artist} |-> amount0]
    ELSE AllocateWith(creation, amount0, FALSE, 65, 35)

\* an _allocate that halves the amount whichever sides exist
_allocateHalvedAlways(creation, amount0) ==
    IF creation.contributions = << >>
    THEN [a \in {creation.artist} |-> amount0]
    ELSE AllocateWith(creation, DecDiv(amount0, 2), FALSE, 65, 35)

\* an _allocate that keeps the last share added for an artist
_allocateOverwriting(creation, amount0) ==
    IF creation.contributions = << >>
    THEN [a \in {creation.artist} |-> amount0]
    ELSE LET full == AllocateWith(creation, amount0, TRUE, 65, 35)
             each == AllocateWith(
                        [artist |-> creation.artist,
                         contributions |->
                            [i \in DOMAIN creation.contributions |->
                                [artist |-> i,
                                 type |-> creation.contributions[i].type]]],
                        amount0, TRUE, 65, 35)
         IN  [a \in DOMAIN full |->
                LET held == {i \in DOMAIN creation.contributions :
                                creation.contributions[i].artist = a}
                    perf == {i \in held :
                                creation.contributions[i].type = "performance"}
                    text == {i \in held :
                                creation.contributions[i].type = "text"}
                    last == IF perf # {} THEN perf
                            ELSE IF text # {} THEN text ELSE held
                IN  each[CHOOSE i \in last : TRUE]]

\* Distribute._allocate: the Counter returned, as a function on its keys
_allocate(creation, amount0) ==
    IF creation.contributions = << >>
    THEN [a \in {creation.artist} |-> amount0]
    ELSE
    LET composer == OfType(creation, "composition")
        texter == OfType(creation, "text")
        performers == OfType(creation, "performance")
        creators == IF composer # {} THEN composer ELSE texter
        amount == IF performers # {} /\ creators # {}
                  THEN DecDiv(amount0, 2) ELSE amount0
        composer_amount ==
            IF composer # {} /\ texter # {}
            THEN DecDiv(DecDiv(amount * 65, 100), Cardinality(composer))
            ELSE IF texter # {} THEN 0
            ELSE IF composer # {} THEN DecDiv(amount, Cardinality(composer))
            ELSE 0
        texter_amount ==
            IF composer # {} /\ texter # {}
            THEN DecDiv(DecDiv(amount * 35, 100), Cardinality(texter))
            ELSE IF texter # {} THEN DecDiv(amount, Cardinality(texter))
            ELSE 0
        performer_amount ==
            IF performers # {} THEN DecDiv(amount, Cardinality(performers))
            ELSE 0
        keys == {creation.contributions[i].artist :
                    i \in DOMAIN creation.contributions}
    IN  [a \in keys |->
            Times(a, creation, composer) * composer_amount
            + Times(a, creation, texter) * texter_amount
            + Times(a, creation, performers) * performer_amount]

\* ------------------------------------------------ utilisations (read model)
\* Utilisation.party, .creation and .timestamp are never written by the
\* wizard; utilisation u uses creation UtilCreation(u) at UtilTimestamp(u)
UtilParty(u) == ((u - 1) % NumParty) + 1

UtilCreation(u) == Creations[((u - 1) % Len(Creations)) + 1]

UtilTimestamp(u) == TicksPerDay + (u - 1)

\* datetime.combine(d, time.min) and datetime.combine(d, time.max)
CombineMin(d) == d * TicksPerDay

CombineMax(d) == d * TicksPerDay + (TicksPerDay - 1)

\* the dates entered for a window: the run is dated at the last day of a
\* window that is not empty, or at the day after it
RunDates(from_date, thru_date) ==
    IF from_date <= thru_date THEN {thru_date, thru_date + 1} ELSE {}

\* company.party.id, the party of the fee line
CompanyParty == NumParty + 1

\* party.pocket_balance and party.pocket_budget, in minor units
Pockets ==
    { [balance |-> Dec(0), budget |-> Dec(5)],
      [balance |-> Dec(11), budget |-> Dec(0)],
      [balance |-> Dec(11), budget |-> Dec(20)],
      [balance |-> Dec(7), budget |-> Dec(2)],
      [balance |-> Dec(-3), budget |-> Dec(5)] }

\* the lookups of a loop pass that raise when the record is missing
Causes == {"revenue", "pocket_account", "hat_account", "journal"}

VARIABLES
    Utilisation,        \* table creation.utilisation: id -> [state, allocation]
    Distribution,       \* table distribution, by id
    Allocation,         \* table distribution.allocation, by id
    AccountMove,        \* table account.move, by id
    pocket,             \* party -> [balance, budget], the party ledger
    pc,                 \* "idle", "loop" or "raised"
    start,              \* the wizard's start view: date, from_date, thru_date
    selected,           \* the search result of the run (history)
    party_utilisations, \* local: party -> its selected utilisations
    todo,               \* the parties the loop has still to visit
    utilisations,       \* local: the search result, then the loop variable
    distribution,       \* local: id of the run's Distribution
    account_moves,      \* local: the moves to create
    snapshot,           \* the tables at the start of the transaction
    outcome,            \* how the last run ended
    error,              \* "none", or "raised" once a lookup of the run raised
    passes,             \* number of loop passes the run completed
    runs,               \* number of runs started
    call_creation,      \* _allocate: the creation argument
    call_amount,        \* _allocate: the amount argument
    result,             \* _allocate: the Counter last returned
    prior,              \* _allocate: calls made before the one observed
    returned            \* _allocate: the observed call has returned

tables == <<Utilisation, Distribution, Allocation, AccountMove>>

locals == <<start, selected, party_utilisations, todo, utilisations,
            distribution, account_moves>>

vars == <<Utilisation, Distribution, Allocation, AccountMove, pocket, pc,
          start, selected, party_utilisations, todo, utilisations,
          distribution, account_moves, snapshot, outcome, error, passes,
          runs, call_creation, call_amount, result, prior, returned>>

\* the state of the calls of _allocate observed on their own
allocation_call == <<call_creation, call_amount, result, prior, returned>>

Tables == [Utilisation |-> Utilisation, Distribution |-> Distribution,
           Allocation |-> Allocation, AccountMove |-> AccountMove]

NoStart == [date |-> None, from_date |-> None, thru_date |-> None]

Init ==
    /\ Utilisation = [u \in Util |->
                        [state |-> "not_distributed", allocation |-> None]]
    /\ Distribution = << >>
    /\ Allocation = << >>
    /\ AccountMove = << >>
    /\ pocket \in [Party -> Pockets]
    /\ pc = "idle"
    /\ start = NoStart
    /\ selected = << >>
    /\ party_utilisations = [p \in {} |-> << >>]
    /\ todo = {}
    /\ utilisations = << >>
    /\ distribution = None
    /\ account_moves = << >>
    /\ snapshot = Tables
    /\ outcome = "none"
    /\ error = "none"
    /\ passes = 0
    /\ runs = 0
    /\ call_creation = Creations[1]
    /\ call_amount = 0
    /\ result = << >>
    /\ prior = 0
    /\ returned = FALSE

\* ------------------------------------------------------------ list helpers
RECURSIVE SortedSeq(_)
SortedSeq(S) ==
    IF S = {} THEN << >>
    ELSE LET m == CHOOSE x \in S : \A y \in S : x <= y
         IN  <<m>> \o SortedSeq(S \ {m})

Range(s) == {s[i] : i \in DOMAIN s}

\* a search that leaves out the state clause
SearchAnyState(from_date, thru_date) ==
    SortedSeq({u \in Util :
        /\ UtilTimestamp(u) >= CombineMin(from_date)
        /\ UtilTimestamp(u) <= CombineMax(thru_date)})

\* a search whose upper clause is < instead of <=
SearchStrict(from_date, thru_date) ==
    SortedSeq({u \in Util :
        /\ UtilTimestamp(u) >= CombineMin(from_date)
        /\ UtilTimestamp(u) < CombineMax(thru_date)
        /\ Utilisation[u].state = "not_distributed"})

\* Utilisation.search: timestamp in the window and state not_distributed
Search(from_date, thru_date) ==
    SortedSeq({u \in Util :
        /\ UtilTimestamp(u) >= CombineMin(from_date)
        /\ UtilTimestamp(u) <= CombineMax(thru_date)
        /\ Utilisation[u].state = "not_distributed"})

\* a grouping that puts every selected utilisation in every party's group
GroupAll(us) ==
    [p \in {UtilParty(u) : u \in Range(us)} |-> us]

\* party_utilisations[utilisation.party.id].append(utilisation)
Group(us) ==
    [p \in {UtilParty(u) : u \in Range(us)} |->
        SortedSeq({u \in Range(us) : UtilParty(u) = p})]

\* ------------------------------------------------------------ the loop body
\* the hat move lines of one utilisation
HatLines(u, share_amount) ==
    LET breakdown == _allocate(UtilCreation(u), share_amount)
        artists == SortedSeq(DOMAIN breakdown)
    IN  [i \in DOMAIN artists |->
            [kind |-> "hat", party |-> None, artist |-> artists[i],
             debit |-> Dec(0), credit |-> round(breakdown[artists[i]])]]

RECURSIVE AllHatLines(_, _)
AllHatLines(us, share_amount) ==
    IF us = << >> THEN << >>
    ELSE HatLines(Head(us), share_amount)
            \o AllHatLines(Tail(us), share_amount)

\* an amount without the budget cap
AmountUncapped(p) == round(pocket[p].balance)

\* amount, fee_amount and share_amount of a party with n utilisations
Amount(p) ==
    round(IF pocket[p].budget < pocket[p].balance
          THEN pocket[p].budget ELSE pocket[p].balance)

\* a fee of 20%
FeeAmountFifth(amount) == round(DecDiv(amount * 20, 100))

FeeAmount(amount) == round(DecDiv(amount * 10, 100))

\* a share that is not divided by the number of utilisations
ShareAmountUndivided(amount, n) == round(amount - FeeAmount(amount))

ShareAmount(amount, n) == round(DecDiv(amount - FeeAmount(amount), n))

\* a skip test that compares the balance with the budget
SkippedBelowBudget(p) ==
    party_utilisations[p] = << >> \/ pocket[p].balance < pocket[p].budget

\* a pass is skipped when the group is empty or the pocket balance is zero
Skipped(p) == party_utilisations[p] = << >> \/ pocket[p].balance = 0

\* the loop state: the tables the body writes and the locals it assigns
LoopState == [Utilisation |-> Utilisation, Allocation |-> Allocation,
              account_moves |-> account_moves, utilisations |-> utilisations]

\* lines 605-634: bind the loop variable, create the Allocation, write the
\* party's utilisations to processing
Allocated(s, p) ==
    LET us == party_utilisations[p]
        amount == Amount(p)
        id == Len(s.Allocation) + 1
    IN  IF Skipped(p) THEN [s EXCEPT !.utilisations = us]
        ELSE [s EXCEPT
                !.utilisations = us,
                !.Allocation = Append(@,
                    [party |-> p, distribution |-> distribution,
                     type |-> "pocket2hats", amount |-> amount,
                     share_amount |-> ShareAmount(amount, Len(us))]),
                !.Utilisation = [u \in Util |->
                    IF u \in Range(us)
                    THEN [state |-> "processing", allocation |-> id]
                    ELSE @[u]]]

\* lines 635-676: the move of the party, appended to account_moves
Move(s, p) ==
    LET us == party_utilisations[p]
        amount == Amount(p)
    IN  [journal |-> "TRANS", origin |-> Len(s.Allocation),
         date |-> start.date,
         lines |->
            << [kind |-> "fee", party |-> CompanyParty, artist |-> None,
                debit |-> Dec(0), credit |-> FeeAmount(amount)],
               [kind |-> "pocket", party |-> p, artist |-> None,
                debit |-> amount, credit |-> Dec(0)] >>
            \o AllHatLines(us, ShareAmount(amount, Len(us)))]

\* one pass of the loop over party_utilisations
LoopBody(s, p) ==
    LET a == Allocated(s, p)
    IN  IF Skipped(p) THEN a
        ELSE [a EXCEPT !.account_moves = Append(@, Move(a, p))]

\* a close that stores the moves of the run in place of the earlier ones
CloseReplacing(s) ==
    [Utilisation |-> [u \in Util |->
                        IF u \in Range(s.utilisations)
                        THEN [s.Utilisation[u] EXCEPT !.state = "distributed"]
                        ELSE s.Utilisation[u]],
     Allocation |-> s.Allocation,
     AccountMove |-> s.account_moves]

\* lines 677-678: create the moves, write the bound utilisations
Close(s) ==
    [Utilisation |-> [u \in Util |->
                        IF u \in Range(s.utilisations)
                        THEN [s.Utilisation[u] EXCEPT !.state = "distributed"]
                        ELSE s.Utilisation[u]],
     Allocation |-> s.Allocation,
     AccountMove |-> AccountMove \o s.account_moves]

\* a run that goes on with an empty search result
NothingFoundNever(found) == FALSE

\* line 587: if not utilisations
NothingFound(found) == found = << >>

\* ----------------------------------------------------------------- actions
\* lines 571-602: search, return 'end' or open the run and group
Start(date, from_date, thru_date) ==
    /\ pc = "idle"
    /\ UNCHANGED allocation_call
    /\ runs < MaxRuns
    /\ runs' = runs + 1
    /\ start' = [date |-> date, from_date |-> from_date,
                 thru_date |-> thru_date]
    /\ LET found == Search(from_date, thru_date)
       IN  /\ selected' = found
           /\ utilisations' = found
           /\ snapshot' = Tables
           /\ error' = "none"
           /\ passes' = 0
           /\ account_moves' = << >>
           /\ IF NothingFound(found)
              THEN /\ outcome' = "end"
                   /\ party_utilisations' = [p \in {} |-> << >>]
                   /\ todo' = {}
                   /\ distribution' = None
                   /\ UNCHANGED <<tables, pocket, pc>>
              ELSE /\ Distribution' = Append(Distribution,
                        [date |-> date, from_date |-> thru_date,
                         thru_date |-> thru_date])
                   /\ distribution' = Len(Distribution) + 1
                   /\ party_utilisations' = Group(found)
                   /\ todo' = DOMAIN Group(found)
                   /\ pc' = "loop"
                   /\ outcome' = "running"
                   /\ UNCHANGED <<Utilisation, Allocation, AccountMove,
                                  pocket>>

\* one pass of the loop, for any party the iteration has not yet produced
Iterate(p) ==
    /\ pc = "loop"
    /\ UNCHANGED allocation_call
    /\ p \in todo
    /\ LET s == LoopBody(LoopState, p)
       IN  /\ Utilisation' = s.Utilisation
           /\ Allocation' = s.Allocation
           /\ account_moves' = s.account_moves
           /\ utilisations' = s.utilisations
    /\ todo' = todo \ {p}
    /\ passes' = passes + 1
    /\ UNCHANGED <<Distribution, AccountMove, pocket, pc, start, selected,
                   party_utilisations, distribution, snapshot, outcome,
                   error, runs>>

\* a pass that catches the exception and goes on with the next party
RaiseSwallowed(p, cause) ==
    /\ pc = "loop"
    /\ UNCHANGED allocation_call
    /\ p \in todo
    /\ ~Skipped(p)
    /\ LET s == Allocated(LoopState, p)
       IN  /\ Utilisation' = s.Utilisation
           /\ Allocation' = s.Allocation
           /\ utilisations' = s.utilisations
    /\ todo' = todo \ {p}
    /\ error' = "raised"
    /\ UNCHANGED <<Distribution, AccountMove, pocket, pc, start, selected,
                   party_utilisations, distribution, account_moves,
                   snapshot, outcome, passes, runs>>

\* a pass whose lookup of a ledger record raises (lines 639, 647, 661, 667):
\* the Allocation is created and the utilisations are written, no move is
\* appended
Raise(p, cause) ==
    /\ pc = "loop"
    /\ UNCHANGED allocation_call
    /\ p \in todo
    /\ ~Skipped(p)
    /\ cause \in Causes
    /\ LET s == Allocated(LoopState, p)
       IN  /\ Utilisation' = s.Utilisation
           /\ Allocation' = s.Allocation
           /\ utilisations' = s.utilisations
    /\ pc' = "raised"
    /\ error' = "raised"
    /\ UNCHANGED <<Distribution, AccountMove, pocket, start, selected,
                   party_utilisations, todo, distribution, account_moves,
                   snapshot, outcome, passes, runs>>

\* the transaction of the wizard rolls back on the exception; the locals of
\* the call are gone
Rollback ==
    /\ pc = "raised"
    /\ UNCHANGED allocation_call
    /\ Utilisation' = snapshot.Utilisation
    /\ Distribution' = snapshot.Distribution
    /\ Allocation' = snapshot.Allocation
    /\ AccountMove' = snapshot.AccountMove
    /\ pc' = "idle"
    /\ outcome' = "aborted"
    /\ party_utilisations' = [p \in {} |-> << >>]
    /\ todo' = {}
    /\ utilisations' = << >>
    /\ distribution' = None
    /\ account_moves' = << >>
    /\ UNCHANGED <<pocket, start, selected, snapshot, error, passes, runs>>

\* final writes that do not wait for the loop to end
FinishEarly ==
    /\ pc = "loop"
    /\ UNCHANGED allocation_call
    /\ LET s == Close(LoopState)
       IN  /\ Utilisation' = s.Utilisation
           /\ AccountMove' = s.AccountMove
    /\ pc' = "idle"
    /\ outcome' = "done"
    /\ UNCHANGED <<Distribution, Allocation, pocket, start, selected,
                   party_utilisations, todo, utilisations, distribution,
                   account_moves, snapshot, error, passes, runs>>

\* lines 677-679 after the loop
Finish ==
    /\ pc = "loop"
    /\ UNCHANGED allocation_call
    /\ todo = {}
    /\ LET s == Close(LoopState)
       IN  /\ Utilisation' = s.Utilisation
           /\ AccountMove' = s.AccountMove
    /\ pc' = "idle"
    /\ outcome' = "done"
    /\ UNCHANGED <<Distribution, Allocation, pocket, start, selected,
                   party_utilisations, todo, utilisations, distribution,
                   account_moves, snapshot, error, passes, runs>>

Next ==
    \/ \E from_date \in Days, thru_date \in Days :
            \E date \in RunDates(from_date, thru_date) :
                Start(date, from_date, thru_date)
    \/ \E p \in Party : Iterate(p)
    \/ \E p \in Party, cause \in Causes : Raise(p, cause)
    \/ Rollback
    \/ Finish

Spec == Init /\ [][Next]_vars

\* ------------------------------------------------- _allocate on its own
\* the artists, contribution types and contribution records of the inputs
Artists == 1..NumArtists
Types == {"composition", "text", "performance"}
Contribs == {Contrib(a, t) : a \in Artists, t \in Types}

\* a contribution record's place in a fixed order of the records
Rank(c) ==
    (c.artist - 1) * 3
    + (CASE c.type = "composition" -> 0 [] c.type = "text" -> 1
         [] c.type = "performance" -> 2)

\* the contribution lists of up to MaxContrib records, one list for each
\* multiset of records (_allocate does not depend on their order)
ContributionLists ==
    UNION {{l \in [1..n -> Contribs] :
                \A i \in 1..(n - 1) : Rank(l[i]) <= Rank(l[i + 1])} :
           n \in 0..MaxContrib}

\* the creations _allocate is called with: creation.artist matters for a
\* creation without contributions only
InputCreations ==
    {[artist |-> a, contributions |-> << >>] : a \in Artists}
    \cup {[artist |-> 1, contributions |-> l] :
            l \in ContributionLists \ {<< >>}}

\* the amounts: share_amount is rounded by the currency, whole minor units
InputAmounts == {Dec(1), Dec(2), Dec(7), Dec(90), Dec(100)}

\* a Counter read at a key it may not hold
Get(counter, a) == IF a \in DOMAIN counter THEN counter[a] ELSE 0

\* a Counter that one call leaves behind kept as the default of the next
DefaultResultShared(previous) == previous

\* lines 692-693: result is None at every call, a new Counter each time
DefaultResult(previous) == << >>

\* lines 695-736 on the Counter r the call starts with: an assignment for a
\* creation without contributions, += for the contribution records
AllocateInto(r, creation, amount0) ==
    LET breakdown == _allocate(creation, amount0)
    IN  [a \in DOMAIN r \cup DOMAIN breakdown |->
            IF creation.contributions = << >>
            THEN IF a \in DOMAIN breakdown THEN breakdown[a] ELSE r[a]
            ELSE Get(r, a) + Get(breakdown, a)]

\* the wizard at rest, nothing stored
InitAlloc ==
    /\ Utilisation = [u \in Util |->
                        [state |-> "not_distributed", allocation |-> None]]
    /\ Distribution = << >>
    /\ Allocation = << >>
    /\ AccountMove = << >>
    /\ pocket = [p \in Party |-> [balance |-> Dec(0), budget |-> Dec(0)]]
    /\ pc = "idle"
    /\ start = NoStart
    /\ selected = << >>
    /\ party_utilisations = [p \in {} |-> << >>]
    /\ todo = {}
    /\ utilisations = << >>
    /\ distribution = None
    /\ account_moves = << >>
    /\ snapshot = Tables
    /\ outcome = "none"
    /\ error = "none"
    /\ passes = 0
    /\ runs = 0
    /\ call_creation \in InputCreations
    /\ call_amount \in InputAmounts
    /\ result = << >>
    /\ prior = 0
    /\ returned = FALSE

\* lines 652-655: an earlier call of the same loop, for another utilisation
\* of the party (the same share_amount, a creation of the catalogue)
Warmup(c) ==
    /\ ~returned
    /\ prior < MaxPrior
    /\ prior' = prior + 1
    /\ result' = AllocateInto(DefaultResult(result), c, call_amount)
    /\ UNCHANGED <<call_creation, call_amount, returned>>
    /\ UNCHANGED <<tables, pocket, pc, locals, snapshot, outcome, error,
                   passes, runs>>

\* lines 681-747: the observed call, _allocate(call_creation, call_amount)
Allocate ==
    /\ ~returned
    /\ returned' = TRUE
    /\ result' = AllocateInto(DefaultResult(result), call_creation,
                              call_amount)
    /\ UNCHANGED <<call_creation, call_amount, prior>>
    /\ UNCHANGED <<tables, pocket, pc, locals, snapshot, outcome, error,
                   passes, runs>>

NextAlloc ==
    \/ \E i \in DOMAIN Creations : Warmup(Creations[i])
    \/ Allocate

SpecAlloc == InitAlloc /\ [][NextAlloc]_vars

\* ------------------------------------------------ definitions for the claims
Abs(x) == IF x < 0 THEN -x ELSE x

RECURSIVE SumOf(_, _)
SumOf(lines, field) ==
    IF lines = << >> THEN 0
    ELSE (IF field = "debit" THEN Head(lines).debit ELSE Head(lines).credit)
            + SumOf(Tail(lines), field)

OfKind(lines, k) == SelectSeq(lines, LAMBDA l : l.kind = k)

\* the moves created so far, committed or waiting in account_moves
Moves == Range(AccountMove) \cup Range(account_moves)

\* the utilisations linked to an Allocation
Linked(id) == {u \in Util : Utilisation[u].allocation = id}

\* amount - fee_amount - sum of the hat credits of a move
Slack(m) ==
    SumOf(OfKind(m.lines, "pocket"), "debit")
        - SumOf(OfKind(m.lines, "fee"), "credit")
        - SumOf(OfKind(m.lines, "hat"), "credit")

Perms(S) ==
    {o \in [1..Cardinality(S) -> S] : \A i, j \in DOMAIN o : o[i] = o[j] => i = j}

\* the whole loop over the parties in the order given, then the final writes
RECURSIVE RunLoop(_, _)
RunLoop(s, order) ==
    IF order = << >> THEN Close(s)
    ELSE RunLoop(LoopBody(s, Head(order)), Tail(order))

\* what a run leaves behind, without the ids the Allocations happen to get
Result(c) ==
    [state |-> [u \in Util |-> c.Utilisation[u].state],
     link |-> [u \in Util |->
                IF c.Utilisation[u].allocation = None THEN {}
                ELSE {c.Allocation[c.Utilisation[u].allocation]}],
     allocations |-> Range(c.Allocation),
     moves |-> {[allocation |-> c.Allocation[m.origin], lines |-> m.lines] :
                    m \in Range(c.AccountMove)}]

\* C1: after a run that completed, every utilisation the run selected has
\* state distributed and none is left in processing
C1_AllSelectedDistributed ==
    outcome = "done" =>
        \A u \in Range(selected) : Utilisation[u].state = "distributed"

\* C2: a utilisation in state processing or distributed has an allocation
C2_LinkedWhenNotOpen ==
    \A u \in Util :
        Utilisation[u].state \in {"processing", "distributed"}
            => Utilisation[u].allocation # None

\* C3: every account move the run creates is balanced: the sum of its debit
\* lines equals the sum of its credit lines
C3_MovesBalanced ==
    \A m \in Moves : SumOf(m.lines, "debit") = SumOf(m.lines, "credit")

\* C4: for every move, fee_amount plus the hat credits differ from amount by at
\* most one minor unit per utilisation of the party
C4_SlackPerUtilisation ==
    \A m \in Moves :
        Abs(Slack(m)) <= Cardinality(Linked(m.origin)) * Unit

\* C5: after a run that completed, the utilisations of a selected party with
\* pocket balance zero are still not_distributed without allocation, and the
\* party has no Allocation and no move in the run
C5_ZeroBalanceSkipped ==
    outcome = "done" =>
        \A p \in DOMAIN party_utilisations :
            pocket[p].balance = 0 =>
                /\ \A u \in Range(party_utilisations[p]) :
                        Utilisation[u] =
                            [state |-> "not_distributed", allocation |-> None]
                /\ \A i \in DOMAIN Allocation :
                        ~(Allocation[i].party = p
                            /\ Allocation[i].distribution = distribution)

\* C6: a selected party whose amount is zero while its pocket balance is not
\* gets no Allocation in the run and its utilisations are not written to
\* processing
C6_ZeroAmountSkipped ==
    pc = "loop" =>
        \A p \in DOMAIN party_utilisations :
            (Amount(p) = 0 /\ pocket[p].balance # 0) =>
                /\ \A i \in DOMAIN Allocation :
                        ~(Allocation[i].party = p
                            /\ Allocation[i].distribution = distribution)
                /\ \A u \in Range(party_utilisations[p]) :
                        Utilisation[u].state # "processing"

\* C7: a run that finds no not_distributed utilisation in its window creates
\* no Distribution, Allocation or move and changes no utilisation
C7_EmptyRunIsNoOp ==
    [][(runs' = runs + 1 /\ Search(start'.from_date, start'.thru_date) = << >>)
        => (UNCHANGED tables /\ pc' = "idle" /\ account_moves' = << >>)]_vars

C7_Witness ==
    /\ outcome = "end"
    /\ selected = << >>
    /\ start.from_date <= start.thru_date
    /\ Distribution # << >>

\* C8: the result of a run is the same for every order in which the loop
\* visits the parties
C8_OrderIndependent ==
    (pc = "loop" /\ todo = DOMAIN party_utilisations) =>
        \A o1, o2 \in Perms(todo) :
            Result(RunLoop(LoopState, o1)) = Result(RunLoop(LoopState, o2))

C10_AllocatedOnce ==
    [][/\ \A u \in Util :
            Utilisation[u].allocation # None =>
                \/ Utilisation'[u].allocation = Utilisation[u].allocation
                \/ /\ pc = "raised"
                   /\ Utilisation'[u] = snapshot.Utilisation[u]
                   /\ snapshot.Utilisation[u].state = "not_distributed"
       /\ \A i, j \in DOMAIN AccountMove' :
            AccountMove'[i].origin = AccountMove'[j].origin => i = j
       /\ \A u \in Range(selected') :
            runs' = runs + 1 => Utilisation[u].allocation = None]_vars

C10_Witness ==
    /\ runs = 2
    /\ outcome = "done"
    /\ distribution = 2
    /\ \E u \in Util :
        /\ Utilisation[u].allocation # None
        /\ Allocation[Utilisation[u].allocation].distribution = 1
        /\ UtilTimestamp(u) >= CombineMin(start.from_date)
        /\ UtilTimestamp(u) <= CombineMax(start.thru_date)
    /\ \E u \in Util :
        /\ Utilisation[u].allocation # None
        /\ Allocation[Utilisation[u].allocation].distribution = 2

\* the day a timestamp falls on
DayOf(ts) == ts \div TicksPerDay

\* the utilisation was not_distributed when the run started and its timestamp
\* lies on a day of the window
InSelection(u, st, snap) ==
    /\ snap.Utilisation[u].state = "not_distributed"
    /\ DayOf(UtilTimestamp(u)) \in st.from_date..st.thru_date

\* C11: the state of a utilisation only changes from not_distributed to
\* processing and from processing to distributed (the rollback of an aborted
\* run, which takes its own writes back, aside)
C11_Lifecycle ==
    [][pc # "raised" =>
        \A u \in Util :
            \/ Utilisation'[u].state = Utilisation[u].state
            \/ /\ Utilisation[u].state = "not_distributed"
               /\ Utilisation'[u].state = "processing"
            \/ /\ Utilisation[u].state = "processing"
               /\ Utilisation'[u].state = "distributed"]_vars

\* C18: a run writes a utilisation only if it was not_distributed at the start
\* of the run with its timestamp inside the window, and the search of a run
\* finds every such utilisation, those at the first and the last instant of
\* the window included
C18_OnlySelectedChange ==
    [][/\ pc # "raised" =>
            \A u \in Util :
                Utilisation'[u] # Utilisation[u] => InSelection(u, start, snapshot)
       /\ runs' = runs + 1 =>
            \A u \in Util :
                InSelection(u, start', snapshot') => u \in Range(selected')]_vars

C18_Witness ==
    /\ outcome = "done"
    /\ \E u, v \in Range(selected) :
        /\ UtilTimestamp(u) = CombineMin(start.from_date)
        /\ UtilTimestamp(v) = CombineMax(start.thru_date)
        /\ Utilisation[u] # snapshot.Utilisation[u]
        /\ Utilisation[v] # snapshot.Utilisation[v]
    /\ \E w \in Util \ Range(selected) :
        Utilisation[w] = snapshot.Utilisation[w]

\* the Allocations of the Distribution d that belong to party p
AllocationsOf(d, p) ==
    {i \in DOMAIN Allocation :
        Allocation[i].distribution = d /\ Allocation[i].party = p}

\* C19: no two Allocations of one Distribution have the same party, and after
\* a run that completed every party with selected utilisations that was not
\* skipped (its pocket balance is not zero) has exactly one Allocation in the
\* run's Distribution
C19_OneAllocationPerParty ==
    /\ \A i, j \in DOMAIN Allocation :
        (Allocation[i].distribution = Allocation[j].distribution
            /\ Allocation[i].party = Allocation[j].party) => i = j
    /\ outcome = "done" =>
        \A p \in DOMAIN party_utilisations :
            pocket[p].balance # 0 =>
                Cardinality(AllocationsOf(distribution, p)) = 1

C19_Witness ==
    /\ outcome = "done"
    /\ \E p, q \in DOMAIN party_utilisations :
        /\ p # q
        /\ Cardinality(AllocationsOf(distribution, p)) = 1
        /\ Cardinality(AllocationsOf(distribution, q)) = 1

\* C20: the Distribution of a run carries the date, the from_date and the
\* thru_date entered in the start view
C20_DistributionCarriesWindow ==
    (pc = "loop" \/ outcome = "done") =>
        /\ Distribution[distribution].date = start.date
        /\ Distribution[distribution].from_date = start.from_date
        /\ Distribution[distribution].thru_date = start.thru_date

\* ------------------------------------------------------ claims on _allocate
RECURSIVE Total(_, _)
\* the sum of the values of f at the keys in S
Total(f, S) ==
    IF S = {} THEN 0
    ELSE LET x == CHOOSE y \in S : TRUE
         IN  f[x] + Total(f, S \ {x})

\* the creation with every contribution record held by an artist of its own
Distinct(c) ==
    [artist |-> c.artist,
     contributions |-> [i \in DOMAIN c.contributions |->
                            Contrib(i, c.contributions[i].type)]]

\* what _allocate adds for each contribution record of the creation
RecordShares(c, a) == _allocate(Distinct(c), a)

\* what the records of one type receive together
RoleTotal(c, a, t) == Total(RecordShares(c, a), OfType(c, t))

\* the number of records of a type
Count(c, t) == Cardinality(OfType(c, t))

Halved(c) ==
    /\ Count(c, "performance") > 0
    /\ Count(c, "composition") + Count(c, "text") > 0

Both(c) == Count(c, "composition") > 0 /\ Count(c, "text") > 0

\* no division of the call rounds: at most two members of each role (the
\* halving and the percentages of a currency amount are exact)
NoRounding(c) == \A t \in Types : Count(c, t) <= 2

\* C12: for a creation without contributions the call returns the mapping
\* {creation.artist: amount} and no other key, whatever was called before
C12_UnclaimedToCreationArtist ==
    (returned /\ call_creation.contributions = << >>) =>
        /\ DOMAIN result = {call_creation.artist}
        /\ result[call_creation.artist] = call_amount

C12_Witness ==
    /\ returned
    /\ prior > 0
    /\ call_creation.contributions = << >>
    /\ call_creation.artist = 2
    /\ result[2] = Dec(100)

\* C13 as stated: for a creation with contributions the shares returned sum
\* to the amount exactly
C13_SumExact ==
    (returned /\ call_creation.contributions # << >>) =>
        Total(result, DOMAIN result) = call_amount

\* C13: for a creation with contributions the shares returned sum to the
\* amount up to the rounding of the Decimal divisions by the role sizes,
\* half a unit of the last place for each contribution record, and exactly
\* when no division rounds
C13_SumUpToRounding ==
    (returned /\ call_creation.contributions # << >>) =>
        /\ 2 * Abs(Total(result, DOMAIN result) - call_amount)
                <= Len(call_creation.contributions)
        /\ NoRounding(call_creation) =>
                Total(result, DOMAIN result) = call_amount

C13_Witness ==
    /\ returned
    /\ call_amount = Dec(100)
    /\ Count(call_creation, "composition") = 3
    /\ Len(call_creation.contributions) = 3
    /\ Cardinality(DOMAIN result) = 2
    /\ Total(result, DOMAIN result) # call_amount

\* C14: with composers and texters the composers' records receive 65 parts
\* and the texters' records 35 parts of what both receive (up to the
\* rounding of the divisions), the records of each of the two roles receive
\* the same share, and 100 for one composer and one texter gives 65 and 35
C14_ComposerTexterSplit ==
    (returned /\ Both(call_creation)) =>
        LET shares == RecordShares(call_creation, call_amount)
            C == RoleTotal(call_creation, call_amount, "composition")
            T == RoleTotal(call_creation, call_amount, "text")
            nc == Count(call_creation, "composition")
            nt == Count(call_creation, "text")
        IN  /\ \A t \in {"composition", "text"} :
                \A i, j \in OfType(call_creation, t) : shares[i] = shares[j]
            /\ 2 * Abs(35 * C - 65 * T) <= 35 * nc + 65 * nt
            /\ NoRounding(call_creation) => 35 * C = 65 * T
            /\ (call_amount = Dec(100)
                    /\ call_creation.contributions =
                        << Contrib(1, "composition"), Contrib(2, "text") >>)
                => (result[1] = Dec(65) /\ result[2] = Dec(35))

C14_Witness ==
    /\ returned
    /\ prior > 0
    /\ call_amount = Dec(100)
    /\ call_creation.contributions =
            << Contrib(1, "composition"), Contrib(2, "text") >>
    /\ result[1] = Dec(65)
    /\ result[2] = Dec(35)

\* C15 as stated: with a performer and a composer or texter, the performers'
\* records receive exactly one half of the amount and the composers' and
\* texters' records exactly the other half
C15_ExactHalves ==
    (returned /\ Halved(call_creation)) =>
        /\ 2 * RoleTotal(call_creation, call_amount, "performance")
                = call_amount
        /\ 2 * (RoleTotal(call_creation, call_amount, "composition")
                + RoleTotal(call_creation, call_amount, "text"))
                = call_amount

\* C15: with a performer and a composer or texter (a texter alone included)
\* the performers' records receive one half of the amount and the composers'
\* and texters' records the other half, each up to the rounding of the
\* Decimal divisions and exactly when no division rounds
C15_HalvesUpToRounding ==
    (returned /\ Halved(call_creation)) =>
        LET P == RoleTotal(call_creation, call_amount, "performance")
            CT == RoleTotal(call_creation, call_amount, "composition")
                  + RoleTotal(call_creation, call_amount, "text")
            np == Count(call_creation, "performance")
            nct == Count(call_creation, "composition")
                   + Count(call_creation, "text")
        IN  /\ Abs(2 * P - call_amount) <= np
            /\ Abs(2 * CT - call_amount) <= nct
            /\ NoRounding(call_creation) =>
                    (2 * P = call_amount /\ 2 * CT = call_amount)

C15_Witness ==
    /\ returned
    /\ call_amount = Dec(100)
    /\ Count(call_creation, "performance") = 3
    /\ Count(call_creation, "text") = 1
    /\ Count(call_creation, "composition") = 0
    /\ 2 * RoleTotal(call_creation, call_amount, "performance") # call_amount
    /\ 2 * RoleTotal(call_creation, call_amount, "text") = call_amount

\* C16: the records of one role all receive the same share, an artist
\* receives the shares of the records it holds, the share of a creation with
\* one role only is the amount divided by the number of records (up to the
\* rounding of that division), and 90 for three composers gives 30 each
C16_EvenWithinRole ==
    returned =>
        LET shares == RecordShares(call_creation, call_amount)
            n == Len(call_creation.contributions)
        IN  /\ \A t \in Types :
                \A i, j \in OfType(call_creation, t) : shares[i] = shares[j]
            /\ \A a \in DOMAIN result :
                call_creation.contributions # << >> =>
                    result[a] = Total(shares,
                        {i \in DOMAIN call_creation.contributions :
                            call_creation.contributions[i].artist = a})
            /\ \A t \in Types :
                (n > 0 /\ Count(call_creation, t) = n) =>
                    \A i \in OfType(call_creation, t) :
                        2 * Abs(n * shares[i] - call_amount) <= n
            /\ (call_amount = Dec(90)
                    /\ call_creation.contributions =
                        << Contrib(1, "composition"),
                           Contrib(2, "composition"),
                           Contrib(3, "composition") >>)
                => \A a \in 1..3 : result[a] = Dec(30)

C16_Witness ==
    /\ returned
    /\ call_amount = Dec(90)
    /\ call_creation.contributions =
            << Contrib(1, "composition"), Contrib(2, "composition"),
               Contrib(3, "composition") >>
    /\ \A a \in 1..3 : result[a] = Dec(30)

\* C17: a call of _allocate leaves the stored records and its arguments as
\* they were, and what the observed call returns is _allocate of its own
\* arguments whatever calls were made before it
C17_Reentrant ==
    [][(prior' # prior \/ returned' # returned) =>
        /\ UNCHANGED <<tables, pocket, call_creation, call_amount>>
        /\ returned' => result' = _allocate(call_creation, call_amount)]_vars

C17_Witness ==
    /\ returned
    /\ prior > 0
    /\ Len(call_creation.contributions) > 1
    /\ result = _allocate(call_creation, call_amount)

\* ------------------------------------------- claims on amounts and records
\* the records of a table that a step leaves in place and unchanged
Kept(old, new, ids) == \A i \in ids : i \in DOMAIN new /\ new[i] = old[i]

\* the selected utilisations of a party in the current run
SelectedOf(p) == {u \in Range(selected) : UtilParty(u) = p}

\* the Allocations of the current run
RunAllocations ==
    {i \in DOMAIN Allocation : Allocation[i].distribution = distribution}

\* a run is under way or has completed
RunOpen == pc = "loop" \/ pc = "raised" \/ outcome = "done"

\* C21: the amount of an Allocation is the currency-rounded pocket budget
\* when the budget is smaller than the pocket balance and the rounded pocket
\* balance otherwise, and never exceeds the balance
C21_AmountCapped ==
    \A i \in DOMAIN Allocation :
        LET b == pocket[Allocation[i].party]
        IN  /\ Allocation[i].amount =
                (IF b.budget < b.balance THEN round(b.budget)
                 ELSE round(b.balance))
            /\ Allocation[i].amount <= b.balance

C21_Witness ==
    /\ outcome = "done"
    /\ \E i, j \in DOMAIN Allocation :
        /\ pocket[Allocation[i].party].budget
                < pocket[Allocation[i].party].balance
        /\ Allocation[i].amount = Dec(2)
        /\ pocket[Allocation[j].party].budget
                > pocket[Allocation[j].party].balance
        /\ Allocation[j].amount = Dec(11)

\* C22: a run that finds utilisations appends one new Distribution, and no
\* step of a run changes or removes a Distribution, an Allocation or a move
\* that an earlier run left (a rollback takes back the records of its own
\* run only)
C22_EarlierResultsKept ==
    [][/\ pc # "raised" =>
            /\ Kept(Distribution, Distribution', DOMAIN Distribution)
            /\ Kept(Allocation, Allocation', DOMAIN Allocation)
            /\ Kept(AccountMove, AccountMove', DOMAIN AccountMove)
       /\ pc = "raised" =>
            /\ Kept(Distribution, Distribution', DOMAIN snapshot.Distribution)
            /\ Kept(Allocation, Allocation', DOMAIN snapshot.Allocation)
            /\ Kept(AccountMove, AccountMove', DOMAIN snapshot.AccountMove)
       /\ (runs' = runs + 1 /\ selected' # << >>) =>
            /\ Len(Distribution') = Len(Distribution) + 1
            /\ distribution' = Len(Distribution')]_vars

C22_Witness ==
    /\ runs = 2
    /\ outcome = "done"
    /\ Len(Distribution) = 2
    /\ Len(snapshot.AccountMove) > 0
    /\ Len(AccountMove) > Len(snapshot.AccountMove)
    /\ \E i, j \in DOMAIN Allocation :
        Allocation[i].distribution = 1 /\ Allocation[j].distribution = 2

\* C23: the step that writes a utilisation to distributed ends the run, and
\* when it is taken the utilisations of every party that is not skipped are
\* in processing with their allocation link; while the loop runs no selected
\* utilisation is distributed
C23_FlipIsLast ==
    [][/\ (\E u \in Util : /\ Utilisation'[u].state = "distributed"
                           /\ Utilisation[u].state # "distributed") =>
            /\ pc' = "idle"
            /\ outcome' = "done"
            /\ \A p \in DOMAIN party_utilisations :
                pocket[p].balance # 0 =>
                    \A u \in Range(party_utilisations[p]) :
                        /\ Utilisation[u].state = "processing"
                        /\ Utilisation[u].allocation # None
       /\ pc' = "loop" =>
            \A u \in Range(selected') :
                Utilisation'[u].state # "distributed"]_vars

C23_Witness ==
    /\ outcome = "done"
    /\ passes >= 2
    /\ \A p \in Party : p \in DOMAIN party_utilisations
                        /\ pocket[p].balance # 0
    /\ \E u \in Range(selected) :
        /\ Utilisation[u].state = "distributed"
        /\ Utilisation[u].allocation # None

\* C24: a linked utilisation has the party of its Allocation, and the
\* utilisations linked to an Allocation of the current run are the selected
\* utilisations of its party
C24_LinkedAreThePartys ==
    /\ \A u \in Util :
        Utilisation[u].allocation # None =>
            /\ Utilisation[u].allocation \in DOMAIN Allocation
            /\ Allocation[Utilisation[u].allocation].party = UtilParty(u)
    /\ RunOpen =>
        \A i \in RunAllocations :
            Linked(i) = SelectedOf(Allocation[i].party)

C24_Witness ==
    /\ outcome = "done"
    /\ Cardinality(RunAllocations) = 2
    /\ \E i \in RunAllocations : Cardinality(Linked(i)) = 2
    /\ \E i \in RunAllocations : Cardinality(Linked(i)) = 1

\* C25: every move has exactly one fee line, crediting the currency-rounded
\* tenth of the amount of its Allocation, exactly one pocket line, debiting
\* the party of the Allocation with the whole amount, and hat credit lines
\* besides
C25_MoveLines ==
    \A m \in Moves :
        LET a == Allocation[m.origin]
            fee == OfKind(m.lines, "fee")
            pkt == OfKind(m.lines, "pocket")
        IN  /\ Len(fee) = 1
            /\ fee[1].debit = 0
            /\ fee[1].credit % Unit = 0
            /\ 2 * Abs(10 * fee[1].credit - a.amount) <= 10 * Unit
            /\ Len(pkt) = 1
            /\ pkt[1].party = a.party
            /\ pkt[1].debit = a.amount
            /\ pkt[1].credit = 0
            /\ \A i \in DOMAIN m.lines :
                m.lines[i].kind \in {"fee", "pocket"}
                \/ (m.lines[i].kind = "hat" /\ m.lines[i].debit = 0
                    /\ m.lines[i].artist # None)

C25_Witness ==
    /\ outcome = "done"
    /\ \E i \in DOMAIN AccountMove :
        /\ Allocation[AccountMove[i].origin].amount = Dec(11)
        /\ OfKind(AccountMove[i].lines, "fee")[1].credit = Dec(1)
        /\ OfKind(AccountMove[i].lines, "pocket")[1].debit = Dec(11)
        /\ Len(OfKind(AccountMove[i].lines, "hat")) > 1

\* the fee of an amount, from the amount stored on the Allocation
FeeOf(a) == round(DecDiv(a * 10, 100))

\* the hat lines of the utilisations in S, in the order of their timestamps
HatLinesOf(S, share) == AllHatLines(SortedSeq(S), share)

\* C26: the share_amount of an Allocation of the current run is
\* round((amount - fee_amount) / n) for the n selected utilisations of its
\* party, and the hat lines of its move are those of _allocate called with
\* that share_amount for each of the n utilisations
C26_ShareAmount ==
    RunOpen =>
        /\ \A i \in RunAllocations :
            LET a == Allocation[i]
                n == Cardinality(SelectedOf(a.party))
            IN  /\ n > 0
                /\ a.share_amount = round(DecDiv(a.amount - FeeOf(a.amount), n))
        /\ \A m \in Moves :
            m.origin \in RunAllocations =>
                OfKind(m.lines, "hat") =
                    HatLinesOf(SelectedOf(Allocation[m.origin].party),
                               Allocation[m.origin].share_amount)

C26_Witness ==
    /\ outcome = "done"
    /\ \E i \in RunAllocations :
        /\ Cardinality(SelectedOf(Allocation[i].party)) = 2
        /\ Allocation[i].amount = Dec(11)
        /\ Allocation[i].share_amount = Dec(5)
        /\ \E m \in Moves : m.origin = i

\* C29: after a run that completed every Distribution has an Allocation
C29_NoEmptyDistribution ==
    outcome = "done" =>
        \A d \in DOMAIN Distribution :
            \E i \in DOMAIN Allocation : Allocation[i].distribution = d

\* C30: every Allocation has an amount above zero and a share_amount of zero
\* or more, and no move line has a negative debit or credit
C30_PositiveAmounts ==
    /\ \A i \in DOMAIN Allocation :
        Allocation[i].amount > 0 /\ Allocation[i].share_amount >= 0
    /\ \A m \in Moves : \A i \in DOMAIN m.lines :
        m.lines[i].debit >= 0 /\ m.lines[i].credit >= 0

\* C27: with performers and no composer or texter each performer record
\* receives the amount divided by the number of performers, and with
\* composers or texters and no performer their records receive the whole
\* amount together, both up to the rounding of the division by the role
\* size and exactly when no division rounds: the amount is not halved
C27_OneSideUndivided ==
    (returned /\ call_creation.contributions # << >>
        /\ ~Halved(call_creation)) =>
        LET shares == RecordShares(call_creation, call_amount)
            P == RoleTotal(call_creation, call_amount, "performance")
            CT == RoleTotal(call_creation, call_amount, "composition")
                  + RoleTotal(call_creation, call_amount, "text")
            n == Len(call_creation.contributions)
        IN  /\ Count(call_creation, "performance") = n =>
                /\ CT = 0
                /\ \A i \in DOMAIN shares :
                    2 * Abs(n * shares[i] - call_amount) <= n
            /\ Count(call_creation, "performance") = 0 =>
                /\ P = 0
                /\ 2 * Abs(CT - call_amount) <= n
            /\ NoRounding(call_creation) => P + CT = call_amount

C27_Witness ==
    /\ returned
    /\ call_amount = Dec(100)
    /\ call_creation.contributions =
            << Contrib(1, "performance"), Contrib(2, "performance") >>
    /\ result[1] = Dec(50)
    /\ result[2] = Dec(50)

\* C28: the result has one entry for each artist of the contributions, and
\* the entry of an artist is the sum of the shares of all the contribution
\* records the artist holds, in one role or in several
C28_OneEntryPerArtist ==
    (returned /\ call_creation.contributions # << >>) =>
        LET shares == RecordShares(call_creation, call_amount)
            records == DOMAIN call_creation.contributions
        IN  /\ DOMAIN result =
                {call_creation.contributions[i].artist : i \in records}
            /\ \A a \in DOMAIN result :
                result[a] = Total(shares,
                    {i \in records :
                        call_creation.contributions[i].artist = a})

C28_Witness ==
    /\ returned
    /\ call_amount = Dec(100)
    /\ call_creation.contributions =
            << Contrib(1, "composition"), Contrib(1, "text"),
               Contrib(1, "performance"), Contrib(2, "performance") >>
    /\ result[1] = DecDiv(Dec(65), 2) + DecDiv(Dec(35), 2) + Dec(25)
    /\ result[2] = Dec(25)

====
